---- MODULE Spec2Model ----
(***************************************************************************)
(* Model of backend/server.js: the OTP start/verify handlers and the issue *)
(* create/status handlers, as they run against the Prisma store.           *)
(*                                                                         *)
(* Every express handler is an async function: it runs without            *)
(* interruption from one `await` to the next, and at each `await` of a     *)
(* store call any other request may run.  One action of the model is one   *)
(* such uninterrupted piece together with the store call it resumes from.  *)
(* Strings the code takes apart (phone, code) are sequences of one-         *)
(* character strings.  Times are milliseconds, as Date.getTime() gives.    *)
(***************************************************************************)
EXTENDS Integers, Sequences, FiniteSets, TLC

VARIABLES
    otp,        \* table Otp: a set of rows {phone, code, createdAt, expiresAt, attempts}
    user,       \* table User: a set of rows {phone, role}
    issue,      \* table Issue, in id order: row i has id i
    event,      \* table Event, in id order
    attachment, \* table Attachment, in id order
    tokens,     \* the {phone, role} payloads jwt.sign has signed so far
    env,        \* the process environment: DEV_OTP_MODE, Twilio configured
    clock,      \* what new Date().getTime() returns now
    req,        \* the requests in flight: slot -> position and locals
    hist        \* history of the run, kept only where a property reads it

vars == <<otp, user, issue, event, attachment, tokens, env, clock, req, hist>>

\* The tables of the issue handlers.
issueTables == <<issue, event, attachment>>

(***************************************************************************)
(* Bounds of the model                                                     *)
(***************************************************************************)

\* The requests that may be in flight at once.
Reqs == {"r1", "r2"}

\* The instants the clock is observed at: the edges of the 45 s cooldown and
\* of the 5 min validity of a record created at 0, and a value half a second
\* inside the cooldown so that rounding up shows.
Instants == {0, 44500, 45000, 300000, 300001}

(***************************************************************************)
(* Strings                                                                 *)
(***************************************************************************)

Digit == <<"0", "1", "2", "3", "4", "5", "6", "7", "8", "9">>

\* String(n) for a non-negative integer n.
RECURSIVE ToStr(_)
ToStr(n) == IF n < 10 THEN <<Digit[n + 1]>>
            ELSE ToStr(n \div 10) \o <<Digit[(n % 10) + 1]>>

IsSpace(c) == c \in {" ", "\t", "\n"}

RECURSIVE TrimLeft(_)
TrimLeft(s) == IF s # <<>> /\ IsSpace(Head(s)) THEN TrimLeft(Tail(s)) ELSE s

RECURSIVE TrimRight(_)
TrimRight(s) == IF s # <<>> /\ IsSpace(s[Len(s)])
                THEN TrimRight(SubSeq(s, 1, Len(s) - 1)) ELSE s

\* String.prototype.trim
Trim(s) == TrimRight(TrimLeft(s))

IsDigit(c) == \E i \in 1..10 : Digit[i] = c

\* String(phone).replace(/\D/g, "")
RECURSIVE DigitsOf(_)
DigitsOf(s) == IF s = <<>> THEN <<>>
               ELSE IF IsDigit(Head(s)) THEN <<Head(s)>> \o DigitsOf(Tail(s))
               ELSE DigitsOf(Tail(s))

StartsWith(s, prefix) ==
    Len(s) >= Len(prefix) /\ SubSeq(s, 1, Len(prefix)) = prefix

\* Lines 68-75, toE164
ToE164(phone) ==
    LET digits == DigitsOf(phone)
    IN  IF Len(digits) = 10 THEN <<"+", "9", "1">> \o digits
        ELSE IF StartsWith(digits, <<"9", "1">>) /\ Len(digits) = 12
             THEN <<"+">> \o digits
        ELSE IF StartsWith(digits, <<"0">>) /\ Len(digits) = 11
             THEN <<"+", "9", "1">> \o Tail(digits)
        ELSE IF StartsWith(phone, <<"+">>) THEN phone
        ELSE <<"+">> \o digits

(***************************************************************************)
(* Inputs                                                                  *)
(***************************************************************************)

AdminPhone == <<"8", "8", "8", "8", "8", "8", "8", "8", "8", "8">>
CitizenPhone == <<"9", "9", "9", "9", "9", "9", "9", "9", "9", "9">>

\* req.body.phone for one identity: absent or empty (<<>>), plain, or padded
\* with blanks.
RawPhonesOf(p) == {<<>>, p, <<" ">> \o p \o <<" ">>}

\* The keys the tables are indexed by.
Phones == {AdminPhone, CitizenPhone}

\* Math.floor(100000 + Math.random() * 900000): the least and the greatest.
CodeBase == 100000
CodeSpan == 900000
GenCodes == {ToStr(CodeBase), ToStr(CodeBase + CodeSpan - 1)}

\* req.body.code: absent or empty, a code the server may have drawn (plain or
\* padded), or one it never draws.
RawCodes == {<<>>, <<"0", "0", "0", "0", "0", "0">>}
            \cup GenCodes \cup {<<" ">> \o c : c \in GenCodes}

(***************************************************************************)
(* The store                                                               *)
(***************************************************************************)

\* findUnique's null
NoRow == [absent |-> TRUE]

\* prisma.<table>.findUnique({ where: { phone } })
FindUnique(table, phone) ==
    IF \E x \in table : x.phone = phone
    THEN CHOOSE x \in table : x.phone = phone
    ELSE NoRow

Has(table, phone) == \E x \in table : x.phone = phone

\* An insert that never looks for the row of the phone.
InsertAlways(table, phone, row) == table \cup {row}

\* prisma.<table>.upsert({ where: { phone }, update, create }): the row of
\* that phone becomes `row`, or `row` is inserted.  (The autoincrement id, which
\* no handler reads, is left out.)
Upsert(table, phone, row) ==
    IF Has(table, phone)
    THEN {IF x.phone = phone THEN row ELSE x : x \in table}
    ELSE table \cup {row}

\* prisma.user.upsert({ where: { phone }, update, create: { phone, role } }):
\* `update` is a record of the fields to overwrite; a created row takes the
\* next autoincrement id (no User row is ever deleted).
UpsertUser(table, phone, update, role) ==
    IF Has(table, phone)
    THEN {IF x.phone = phone
          THEN [f \in DOMAIN x |-> IF f \in DOMAIN update THEN update[f] ELSE x[f]]
          ELSE x : x \in table}
    ELSE table \cup {[id |-> Cardinality(table) + 1, phone |-> phone, role |-> role]}

\* A delete that removes nothing.
DeleteNothing(table, phone) == table

\* prisma.<table>.delete({ where: { phone } })
Delete(table, phone) == {x \in table : x.phone # phone}

MaxAttempts == 5
CooldownSec == 45
TtlMs == 5 * 60 * 1000

\* DEV_OTP_MODE=console (Twilio is then ignored), Twilio configured, neither.
\* tz is what the process's time zone adds to UTC, in milliseconds: the OTP
\* handlers only subtract and compare instants, so UTC stands for every zone.
Environments == {[devOtp |-> TRUE, twilio |-> FALSE, tz |-> 0],
                 [devOtp |-> FALSE, twilio |-> TRUE, tz |-> 0],
                 [devOtp |-> FALSE, twilio |-> FALSE, tz |-> 0]}

\* A free slot.  phone, code, now, wait are the locals of the OTP handlers;
\* actor (req.user), id, status, category, text (the description), rows (the
\* attachments, then the rows to insert) and uid (user?.id) those of the
\* issue handlers; query is req.query of GET /issues; read is the `row` a
\* verify holds from its lookup on (its code and createdAt).
Idle == [pc |-> "idle", phone |-> <<>>, code |-> <<>>, now |-> 0,
         res |-> "", wait |-> 0,
         actor |-> NoRow, id |-> 0, status |-> "", category |-> <<>>,
         text |-> <<>>, rows |-> <<>>, uid |-> 0, query |-> [absent |-> TRUE],
         read |-> [absent |-> TRUE]]

\* A slot that keeps only the phone of its request.
Bare(slot) == [Idle EXCEPT !.phone = slot.phone]

\* res.status(...).json(...): the handler is over.
Respond(slot, result) == [slot EXCEPT !.pc = "done", !.res = result]

(***************************************************************************)
(* History.  `track` says which history the run keeps:                     *)
(*   verifiedNoOk   phones with a successful verify and no start answered  *)
(*                  ok since                                               *)
(*   verifiedNoNew  ... and no start has written a record since            *)
(*   spentNoOk      phones whose record reached 5 attempts or expired, and *)
(*                  no start answered ok since                             *)
(*   spentNoNew     ... and no start has written a record since            *)
(*   okAt           phone -> `now` of the last start that answered ok, -1  *)
(*                  when there is none                                     *)
(* The track "consume" keeps no history: there a verify keeps the row of   *)
(* its lookup until it answers.  The track "e164" keeps                    *)
(*   input          the req.body.phone the run is made on                  *)
(*   sent           the last call of sendSms: the phone toE164 was given   *)
(*                  and the address it returned                            *)
(***************************************************************************)

NoHistory(track) ==
    [track |-> track, verifiedNoOk |-> {}, verifiedNoNew |-> {},
     spentNoOk |-> {}, spentNoNew |-> {},
     okAt |-> [p \in Phones |-> -1],
     input |-> <<>>, sent |-> NoRow]

\* The state after start-up: empty tables, no request in flight.
InitWith(envs, track) ==
    /\ otp = {}
    /\ user = {}
    /\ issue = <<>>
    /\ event = <<>>
    /\ attachment = <<>>
    /\ tokens = {}
    /\ env \in envs
    /\ clock = 0
    /\ req = [r \in Reqs |-> Idle]
    /\ hist = NoHistory(track)

Init == InitWith(Environments, "none")

\* The phones whose stored record can no longer be verified at time t.
Spent(table, t) ==
    {x.phone : x \in {y \in table : y.attempts >= MaxAttempts \/ t > y.expiresAt}}

\* A store or clock step: records that have just become unusable.
HistSpent(h, table, t) ==
    IF h.track # "replay" THEN h
    ELSE [h EXCEPT !.spentNoOk = @ \cup Spent(table, t),
                   !.spentNoNew = @ \cup Spent(table, t)]

\* A start has written its record for phone p.
HistWritten(h, p) ==
    IF h.track # "replay" THEN h
    ELSE [h EXCEPT !.verifiedNoNew = @ \ {p}, !.spentNoNew = @ \ {p}]

\* A start for phone p, made at `now`, has answered ok.
HistStartOk(h, p, now) ==
    IF h.track = "replay"
    THEN [h EXCEPT !.verifiedNoOk = @ \ {p}, !.spentNoOk = @ \ {p}]
    ELSE IF h.track = "cooldown" THEN [h EXCEPT !.okAt[p] = now]
    ELSE h

\* A verify for phone p has answered with a token.
HistVerified(h, p) ==
    IF h.track # "replay" THEN h
    ELSE [h EXCEPT !.verifiedNoOk = @ \cup {p}]

\* sendSms has been called with the address toE164 made of phone p.
HistSent(h, p, to) ==
    IF h.track # "e164" THEN h
    ELSE [h EXCEPT !.sent = [phone |-> p, to |-> to]]

\* A verify for phone p has deleted the record.
HistConsumed(h, p) ==
    IF h.track # "replay" THEN h
    ELSE [h EXCEPT !.verifiedNoNew = @ \cup {p}]

(***************************************************************************)
(* Time                                                                    *)
(***************************************************************************)

Tick ==
    /\ \E t \in Instants : t > clock /\ clock' = t
    /\ hist' = HistSpent(hist, otp, clock')
    /\ UNCHANGED <<otp, user, issueTables, tokens, env, req>>

(***************************************************************************)
(* POST /auth/otp/start                                                    *)
(***************************************************************************)

\* deltaSec <= 45: the cooldown one instant too long.
InCooldownInclusive(now, existing) == now - existing.createdAt <= CooldownSec * 1000

\* deltaSec < 45, in milliseconds
InCooldown(now, existing) == now - existing.createdAt < CooldownSec * 1000

\* Math.floor(45 - deltaSec): the wait rounded down.
WaitSecondsFloor(now, existing) ==
    (CooldownSec * 1000 - (now - existing.createdAt)) \div 1000

\* Math.ceil(45 - deltaSec)
WaitSeconds(now, existing) ==
    LET left == CooldownSec * 1000 - (now - existing.createdAt)
    IN  IF left % 1000 = 0 THEN left \div 1000 ELSE (left \div 1000) + 1

\* The row prisma.otp.upsert leaves: update {code, expiresAt, createdAt,
\* attempts: 0}, or create with attempts at its default 0.
UpsertedRow(phone, code, now) ==
    [phone |-> phone, code |-> code, createdAt |-> now,
     expiresAt |-> now + TtlMs, attempts |-> 0]

\* Lines 113-119: validate, take `now`, ask the store for the row.
StartBegin(r, rawPhone) ==
    /\ req[r].pc = "idle"
    /\ req' = [req EXCEPT ![r] =
                 IF rawPhone = <<>>
                 THEN Respond(Idle, "phone required")
                 ELSE [Idle EXCEPT !.pc = "s_find", !.phone = Trim(rawPhone),
                                   !.now = clock]]
    /\ UNCHANGED <<otp, user, issueTables, tokens, env, clock, hist>>

\* Lines 119-128: the row arrives; refuse inside the cooldown, else draw a
\* code and send the upsert.
StartFind(r, newCode) ==
    /\ req[r].pc = "s_find"
    /\ LET existing == FindUnique(otp, req[r].phone)
           now == req[r].now
       IN  req' = [req EXCEPT ![r] =
                 IF existing # NoRow /\ InCooldown(now, existing)
                 THEN [Respond(Bare(@), "Please wait") EXCEPT
                          !.wait = WaitSeconds(now, existing)]
                 ELSE [@ EXCEPT !.pc = "s_upsert", !.code = newCode]]
    /\ UNCHANGED <<otp, user, issueTables, tokens, env, clock, hist>>

\* Lines 128-134: the upsert takes effect.
StartUpsert(r) ==
    /\ req[r].pc = "s_upsert"
    /\ LET p == req[r].phone
       IN  /\ otp' = Upsert(otp, p, UpsertedRow(p, req[r].code, req[r].now))
           /\ hist' = HistSpent(HistWritten(hist, p), otp', clock)
    /\ req' = [req EXCEPT ![r] =
                 [@ EXCEPT !.pc = "s_send",
                           !.now = IF hist.track = "cooldown" THEN @ ELSE 0]]
    /\ UNCHANGED <<user, issueTables, tokens, env, clock>>

\* Lines 77-94, sendSms: console mode and the unconfigured gateway only log
\* the body; Twilio delivers or throws.
SendSms(to, body, delivered) ==
    IF env.devOtp THEN [ok |-> TRUE, dev |-> TRUE]
    ELSE IF env.twilio
         THEN IF delivered THEN [ok |-> TRUE, dev |-> FALSE]
              ELSE [ok |-> FALSE, dev |-> FALSE]
    ELSE [ok |-> TRUE, dev |-> TRUE]

\* A send step that takes the record back when the gateway fails.
StartSendRollback(r, delivered) ==
    /\ req[r].pc = "s_send"
    /\ LET e164 == ToE164(req[r].phone)
           sent == SendSms(e164, req[r].code, delivered)
       IN  IF ~sent.ok /\ ~sent.dev
           THEN /\ req' = [req EXCEPT ![r] = Respond(Bare(@), "Failed to send OTP")]
                /\ otp' = Delete(otp, req[r].phone)
                /\ hist' = hist
           ELSE /\ req' = [req EXCEPT ![r] = Respond(Bare(@), "ok")]
                /\ otp' = otp
                /\ hist' = HistStartOk(hist, req[r].phone, req[r].now)
    /\ UNCHANGED <<user, issueTables, tokens, env, clock>>

\* Lines 134-140: the message goes to the gateway, the answer comes back.
StartSend(r, delivered) ==
    /\ req[r].pc = "s_send"
    /\ LET e164 == ToE164(req[r].phone)
           sent == SendSms(e164, req[r].code, delivered)
       IN  IF ~sent.ok /\ ~sent.dev
           THEN /\ req' = [req EXCEPT ![r] = Respond(Bare(@), "Failed to send OTP")]
                /\ hist' = HistSent(hist, req[r].phone, e164)
           ELSE /\ req' = [req EXCEPT ![r] = Respond(Bare(@), "ok")]
                /\ hist' = HistSent(HistStartOk(hist, req[r].phone, req[r].now),
                                    req[r].phone, e164)
    /\ UNCHANGED <<otp, user, issueTables, tokens, env, clock>>

(***************************************************************************)
(* POST /auth/otp/verify                                                   *)
(***************************************************************************)

\* now < row.expiresAt: the comparison turned round.
IsExpiredInverted(now, row) == now < row.expiresAt

\* now > row.expiresAt
IsExpired(now, row) == now > row.expiresAt

\* row.attempts > 5: the ceiling one too high.
TooManyAttemptsOffByOne(row) == row.attempts > MaxAttempts

\* row.attempts >= 5
TooManyAttempts(row) == row.attempts >= MaxAttempts

\* row.code !== code
CodeMismatch(row, code) == row.code # code

\* data: { attempts: { increment: 1 } }
Incremented(row) == [row EXCEPT !.attempts = @ + 1]

\* A role that forgets the admin phone.
RoleAlwaysCitizen(phone) == "citizen"

\* phone === "8888888888" ? "admin" : "citizen"
RoleOf(phone) == IF phone = AdminPhone THEN "admin" ELSE "citizen"

\* Lines 147-154: validate, ask the store for the row.
VerifyBegin(r, rawPhone, rawCode) ==
    /\ req[r].pc = "idle"
    /\ req' = [req EXCEPT ![r] =
                 IF rawPhone = <<>> \/ rawCode = <<>>
                 THEN Respond(Idle, "phone and code required")
                 ELSE [Idle EXCEPT !.pc = "v_find", !.phone = Trim(rawPhone),
                                   !.code = Trim(rawCode)]]
    /\ UNCHANGED <<otp, user, issueTables, tokens, env, clock, hist>>

\* Lines 154-166: the row arrives; take `now`, run the checks and send the
\* increment or the delete.
VerifyFind(r) ==
    /\ req[r].pc = "v_find"
    /\ LET row == FindUnique(otp, req[r].phone)
           now == clock
       IN  req' = [req EXCEPT ![r] =
                 IF row = NoRow THEN Respond(Bare(@), "start OTP first")
                 ELSE IF IsExpired(now, row) THEN Respond(Bare(@), "OTP expired")
                 ELSE IF TooManyAttempts(row) THEN Respond(Bare(@), "Too many attempts")
                 ELSE IF CodeMismatch(row, req[r].code)
                      THEN [Bare(@) EXCEPT !.pc = "v_update"]
                 ELSE [Bare(@) EXCEPT
                          !.pc = "v_delete",
                          !.read = IF hist.track = "consume"
                                   THEN [code |-> row.code, createdAt |-> row.createdAt]
                                   ELSE NoRow]]
    /\ UNCHANGED <<otp, user, issueTables, tokens, env, clock, hist>>

\* Lines 162-163: prisma.otp.update takes effect on the row stored now; it
\* throws when there is none, and the catch of line 173 answers 500.
VerifyUpdate(r) ==
    /\ req[r].pc = "v_update"
    /\ LET p == req[r].phone
       IN  IF ~Has(otp, p)
           THEN /\ req' = [req EXCEPT ![r] = Respond(@, "failed")]
                /\ UNCHANGED <<otp, hist>>
           ELSE /\ otp' = Upsert(otp, p, Incremented(FindUnique(otp, p)))
                /\ hist' = HistSpent(hist, otp', clock)
                /\ req' = [req EXCEPT ![r] = Respond(@, "Invalid OTP")]
    /\ UNCHANGED <<user, issueTables, tokens, env, clock>>

\* Line 166: prisma.otp.delete takes effect; it throws when there is no row.
VerifyDelete(r) ==
    /\ req[r].pc = "v_delete"
    /\ LET p == req[r].phone
       IN  IF ~Has(otp, p)
           THEN /\ req' = [req EXCEPT ![r] = Respond(@, "failed")]
                /\ UNCHANGED <<otp, hist>>
           ELSE /\ otp' = Delete(otp, p)
                /\ hist' = HistConsumed(hist, p)
                /\ req' = [req EXCEPT ![r].pc = "v_user"]
    /\ UNCHANGED <<user, issueTables, tokens, env, clock>>

\* Lines 168-172: the user upsert takes effect, the token is signed.
VerifyUser(r) ==
    /\ req[r].pc = "v_user"
    /\ LET p == req[r].phone
           role == RoleOf(p)
       IN  /\ user' = UpsertUser(user, p, [role |-> role], role)
           /\ tokens' = tokens \cup {[phone |-> p, role |-> role]}
           /\ hist' = HistVerified(hist, p)
    /\ req' = [req EXCEPT ![r] = Respond(@, "token")]
    /\ UNCHANGED <<otp, issueTables, env, clock>>

\* The response is out; the slot takes the next request.
Return(r) ==
    /\ req[r].pc = "done"
    /\ req' = [req EXCEPT ![r] = Idle]
    /\ UNCHANGED <<otp, user, issueTables, tokens, env, clock, hist>>

(***************************************************************************)
(* The OTP handlers, run by the requests of S on the phone inputs P.       *)
(***************************************************************************)

OtpNext(S, P) ==
    \/ Tick
    \/ \E r \in S, p \in P : StartBegin(r, p)
    \/ \E r \in S, c \in GenCodes : StartFind(r, c)
    \/ \E r \in S : StartUpsert(r)
    \/ \E r \in S, d \in BOOLEAN : StartSend(r, d)
    \/ \E r \in S, p \in P, c \in RawCodes : VerifyBegin(r, p, c)
    \/ \E r \in S : VerifyFind(r)
    \/ \E r \in S : VerifyUpdate(r)
    \/ \E r \in S : VerifyDelete(r)
    \/ \E r \in S : VerifyUser(r)
    \/ \E r \in S : Return(r)

\* Rows of different phones never meet (every store call is keyed by the
\* phone): concurrent requests are explored on one identity.
SpecOtp == Init /\ [][OtpNext(Reqs, RawPhonesOf(CitizenPhone))]_vars

\* With Twilio configured a send may succeed or fail, which covers what the
\* other environments do; the specifications that keep a history run there.
TwilioOnly == {e \in Environments : e.twilio}

SpecReplay ==
    InitWith(TwilioOnly, "replay") /\ [][OtpNext(Reqs, RawPhonesOf(CitizenPhone))]_vars

SpecCooldown ==
    InitWith(TwilioOnly, "cooldown") /\ [][OtpNext(Reqs, RawPhonesOf(CitizenPhone))]_vars

SpecConsume ==
    InitWith(TwilioOnly, "consume") /\ [][OtpNext(Reqs, RawPhonesOf(CitizenPhone))]_vars

\* The phone strings toE164 is applied to: 10 digits plain and padded, 12
\* digits with the country code, 11 digits with the trunk 0, fewer digits,
\* and strings that begin with "+" and hold 10, 11 (with and without a
\* leading 0) and 12 digits (plain and with a blank).
E164Inputs ==
    {CitizenPhone,
     <<" ">> \o CitizenPhone \o <<" ">>,
     <<"9", "1">> \o CitizenPhone,
     <<"0">> \o CitizenPhone,
     <<"1", "2", "3", "4", "5">>,
     <<"9", "9", "9", "9", "9", "-", "9", "9", "9", "9", "9">>,
     <<"+", "6", "5", "8", "1", "2", "3", "4", "5", "6", "7">>,
     <<"+", "1", "2", "0", "2", "5", "5", "5", "0", "1", "2", "3">>,
     <<"+", "0", "9", "9", "9", "9", "9", "9", "9", "9", "9", "9">>,
     <<"+", "9", "1">> \o CitizenPhone,
     <<"+", "9", "1", " ">> \o CitizenPhone}

\* One request at a time on one phone string, Twilio configured.
InitE164 ==
    /\ otp = {}
    /\ user = {}
    /\ issue = <<>>
    /\ event = <<>>
    /\ attachment = <<>>
    /\ tokens = {}
    /\ env \in TwilioOnly
    /\ clock = 0
    /\ req = [r \in Reqs |-> Idle]
    /\ hist \in {[NoHistory("e164") EXCEPT !.input = p] : p \in E164Inputs}

\* The OTP handlers on the phone string of the run.
E164Next ==
    \/ Tick
    \/ \E p \in {<<>>, hist.input} : StartBegin("r1", p)
    \/ \E c \in GenCodes : StartFind("r1", c)
    \/ StartUpsert("r1")
    \/ \E d \in BOOLEAN : StartSend("r1", d)
    \/ \E p \in {<<>>, hist.input}, c \in RawCodes : VerifyBegin("r1", p, c)
    \/ VerifyFind("r1")
    \/ VerifyUpdate("r1")
    \/ VerifyDelete("r1")
    \/ VerifyUser("r1")
    \/ Return("r1")

SpecE164 == InitE164 /\ [][E164Next]_vars

(***************************************************************************)
(* The issue handlers.  They sit behind auth (lines 96-102): req.user is   *)
(* the payload of a token this server signed.                              *)
(***************************************************************************)

\* The most issues and events the model lets the tables hold.
MaxIssues == 1
MaxEvents == 3

\* Authorization header: none, or a token signed by line 171.
Credentials == {[phone |-> p, role |-> RoleOf(p)] : p \in Phones}
Bearers == {NoRow} \cup Credentials
CitizenBearers == {b \in Bearers : b = NoRow \/ b.phone = CitizenPhone}

\* req.body.status of POST /issues/:id/status: absent (the default applies)
\* or a label.
NoStatus == "undefined"
Statuses == {NoStatus, "Resolved"}

\* const { status = "Assigned" } = req.body || {}
StatusOr(given) == IF given = NoStatus THEN "Assigned" ELSE given

\* A JSON number, string, array and null, told apart as typeof and
\* Array.isArray do.
Num(n) == [num |-> n]
Str(t) == [str |-> t]
Arr(s) == [arr |-> s]
Null == [null |-> TRUE]

\* typeof v === "number"
IsNumber(v) == "num" \in DOMAIN v

\* Array.isArray(v)
IsArray(v) == "arr" \in DOMAIN v

\* typeof v === "string"
IsString(v) == "str" \in DOMAIN v

\* v as a condition: undefined, null, "" and 0 are falsy.
Truthy(v) == v # Null /\ v # Str("") /\ v # Num(0)

\* req.body of POST /issues: category, description, coords, attachments.
\* The attachments are no array, an empty one, one whose references are all
\* malformed, one that mixes well-formed references with a reference
\* without a filename, a null, one whose size is a string and one without
\* a mime, or one with a reference whose filename is a number.  A field
\* that is absent reads as Null.
NoCoords == [absent |-> TRUE]
Pothole == <<"P", "o", "t", "h", "o", "l", "e">>
GoodFile == [filename |-> Str("a.jpg"), mime |-> Str("image/jpeg"), size |-> Num(10)]
OtherFile == [filename |-> Str("b.png"), mime |-> Str("image/png"), size |-> Num(0)]
NoName == [filename |-> Str(""), mime |-> Str("image/png"), size |-> Num(1)]
TextSize == [filename |-> Str("c.jpg"), mime |-> Str("image/jpeg"), size |-> Str("10")]
NoMime == [filename |-> Str("d.jpg"), mime |-> Null, size |-> Num(2)]
NumberName == [filename |-> Num(7), mime |-> Str("image/png"), size |-> Num(3)]
AttachmentInputs ==
    {Str("none"), Arr(<<>>), Arr(<<NoName, Null>>),
     Arr(<<GoodFile, NoName, Null, TextSize, OtherFile, NoMime>>),
     Arr(<<GoodFile, NumberName>>)}
Bodies ==
    {[category |-> c, description |-> <<>>, coords |-> xy, attachments |-> at] :
        c \in {<<>>, Pothole},
        xy \in {NoCoords, [lat |-> Num(12), lng |-> Str("77")],
                [lat |-> Num(12), lng |-> Num(77)]},
        at \in AttachmentInputs}

\* Line 196
BodyValid(b) ==
    /\ b.category # <<>>
    /\ b.coords # NoCoords
    /\ IsNumber(b.coords.lat)
    /\ IsNumber(b.coords.lng)

\* Line 219: a && a.filename && typeof a.size === "number" && a.mime
WellFormed(a) ==
    a # Null /\ Truthy(a.filename) /\ IsNumber(a.size) /\ Truthy(a.mime)

\* "filename" TEXT NOT NULL, "mime" TEXT NOT NULL, "size" INTEGER NOT NULL:
\* the row's values have the types of the columns.
FitsColumns(row) == IsString(row.filename) /\ IsString(row.mime)

\* Lines 218-220: filter, then map onto rows of the new issue.
RECURSIVE AttachmentRows(_, _)
AttachmentRows(atts, issueId) ==
    IF atts = <<>> THEN <<>>
    ELSE IF WellFormed(Head(atts))
         THEN <<[issueId |-> issueId, filename |-> Head(atts).filename,
                 mime |-> Head(atts).mime, size |-> Head(atts).size.num]>>
              \o AttachmentRows(Tail(atts), issueId)
    ELSE AttachmentRows(Tail(atts), issueId)

\* The requests that are inside an issue handler.
InIssueHandler(r) ==
    req[r].pc \in {"c_user", "c_issue", "c_attach", "c_event",
                   "t_find", "t_update", "t_event"}

\* Room for one more issue, and for the events of the requests in flight.
RoomFor(r) ==
    /\ Len(issue) + Cardinality({q \in Reqs : req[q].pc \in {"c_user", "c_issue"}})
          < MaxIssues
    /\ Len(event) + Cardinality({q \in Reqs : InIssueHandler(q)}) < MaxEvents

\* Lines 194-203: auth, validation, and the user upsert is sent (or, without a
\* phone in the token, the issue insert).
CreateBegin(r, bearer, body) ==
    /\ req[r].pc = "idle"
    /\ bearer = NoRow \/ bearer \in tokens
    /\ bearer = NoRow \/ ~BodyValid(body) \/ RoomFor(r)
    /\ req' = [req EXCEPT ![r] =
                 IF bearer = NoRow THEN Respond(Idle, "unauthorized")
                 ELSE IF ~BodyValid(body)
                      THEN Respond(Idle, "category and coords {lat,lng} required")
                 ELSE [Idle EXCEPT !.pc = "c_user", !.actor = bearer,
                                   !.category = body.category,
                                   !.text = body.description,
                                   !.rows = body.attachments]]
    /\ UNCHANGED <<otp, user, issueTables, tokens, env, clock, hist>>

\* Lines 201-205: the user upsert (update: {}) takes effect; the issue insert
\* is sent.
CreateUser(r) ==
    /\ req[r].pc = "c_user"
    /\ LET a == req[r].actor
       IN  /\ user' = UpsertUser(user, a.phone, <<>>, a.role)
           /\ req' = [req EXCEPT ![r] =
                        [@ EXCEPT !.pc = "c_issue",
                                  !.uid = FindUnique(user', a.phone).id]]
    /\ UNCHANGED <<otp, issueTables, tokens, env, clock, hist>>

\* Lines 205-222: the issue insert takes effect; the attachment rows are
\* computed and, if there are any, their insert is sent, else the event's.
CreateIssue(r) ==
    /\ req[r].pc = "c_issue"
    /\ LET id == Len(issue) + 1
           atts == req[r].rows
           rows == IF IsArray(atts) /\ atts.arr # <<>>
                   THEN AttachmentRows(atts.arr, id) ELSE <<>>
       IN  /\ issue' = Append(issue, [id |-> id, category |-> req[r].category,
                                      description |-> req[r].text,
                                      status |-> "Created", createdAt |-> clock,
                                      createdById |-> req[r].uid])
           /\ req' = [req EXCEPT ![r] =
                        [@ EXCEPT !.pc = IF rows # <<>> THEN "c_attach" ELSE "c_event",
                                  !.id = id, !.category = <<>>, !.text = <<>>,
                                  !.rows = rows, !.uid = 0]]
    /\ UNCHANGED <<otp, user, event, attachment, tokens, env, clock, hist>>

\* Line 221: createMany takes effect.
CreateAttachments(r) ==
    /\ req[r].pc = "c_attach"
    /\ attachment' = attachment \o req[r].rows
    /\ req' = [req EXCEPT ![r] = [@ EXCEPT !.pc = "c_event", !.rows = <<>>]]
    /\ UNCHANGED <<otp, user, issue, event, tokens, env, clock, hist>>

\* Line 221: createMany is given a row that does not have the types of the
\* columns.  Whether the store converts the value (the step above) or
\* rejects the call is the store's choice; when it rejects, the await throws
\* and the request ends there.
CreateAttachmentsRejected(r) ==
    /\ req[r].pc = "c_attach"
    /\ \E k \in DOMAIN req[r].rows : ~FitsColumns(req[r].rows[k])
    /\ req' = [req EXCEPT ![r] = Respond(Idle, "store failure")]
    /\ UNCHANGED <<otp, user, issueTables, tokens, env, clock, hist>>

\* Lines 224-226: the event insert takes effect; the id is answered.
CreateEvent(r) ==
    /\ req[r].pc = "c_event"
    /\ event' = Append(event, [issueId |-> req[r].id, status |-> "Created",
                               byPhone |-> req[r].actor.phone])
    /\ req' = [req EXCEPT ![r] = Respond([Idle EXCEPT !.id = req[r].id], "created")]
    /\ UNCHANGED <<otp, user, issue, attachment, tokens, env, clock, hist>>

\* Lines 278-282: auth, Number(req.params.id), the status or its default; the
\* lookup is sent.
StatusBegin(r, bearer, id, given) ==
    /\ req[r].pc = "idle"
    /\ bearer = NoRow \/ bearer \in tokens
    /\ bearer = NoRow
          \/ Len(event) + Cardinality({q \in Reqs : InIssueHandler(q)}) < MaxEvents
    /\ req' = [req EXCEPT ![r] =
                 IF bearer = NoRow THEN Respond(Idle, "unauthorized")
                 ELSE [Idle EXCEPT !.pc = "t_find", !.actor = bearer, !.id = id,
                                   !.status = StatusOr(given)]]
    /\ UNCHANGED <<otp, user, issueTables, tokens, env, clock, hist>>

\* A lookup step that goes on to the update whatever it finds.
StatusFindNoCheck(r) ==
    /\ req[r].pc = "t_find"
    /\ req' = [req EXCEPT ![r].pc = "t_update"]
    /\ UNCHANGED <<otp, user, issueTables, tokens, env, clock, hist>>

\* Lines 282-285: the lookup answers; 404, or the update is sent.
StatusFind(r) ==
    /\ req[r].pc = "t_find"
    /\ req' = [req EXCEPT ![r] =
                 IF req[r].id \in DOMAIN issue THEN [@ EXCEPT !.pc = "t_update"]
                 ELSE Respond(Idle, "issue not found")]
    /\ UNCHANGED <<otp, user, issueTables, tokens, env, clock, hist>>

\* Line 285: the update takes effect; the event insert is sent.
StatusUpdate(r) ==
    /\ req[r].pc = "t_update"
    /\ issue' = [issue EXCEPT ![req[r].id].status = req[r].status]
    /\ req' = [req EXCEPT ![r].pc = "t_event"]
    /\ UNCHANGED <<otp, user, event, attachment, tokens, env, clock, hist>>

\* An event step that rewrites the latest event instead of adding one.
StatusEventOverwrite(r) ==
    /\ req[r].pc = "t_event"
    /\ LET e == [issueId |-> req[r].id, status |-> req[r].status,
                 byPhone |-> req[r].actor.phone]
       IN  event' = IF event = <<>> THEN <<e>> ELSE [event EXCEPT ![Len(event)] = e]
    /\ req' = [req EXCEPT ![r] = Respond([Idle EXCEPT !.status = req[r].status], "ok")]
    /\ UNCHANGED <<otp, user, issue, attachment, tokens, env, clock, hist>>

\* Lines 286-288: the event insert takes effect; ok is answered.
StatusEvent(r) ==
    /\ req[r].pc = "t_event"
    /\ event' = Append(event, [issueId |-> req[r].id, status |-> req[r].status,
                               byPhone |-> req[r].actor.phone])
    /\ req' = [req EXCEPT ![r] = Respond([Idle EXCEPT !.status = req[r].status], "ok")]
    /\ UNCHANGED <<otp, user, issue, attachment, tokens, env, clock, hist>>

\* A store call of an issue handler rejects (the store is down, the call
\* times out): the await throws, no handler of lines 194-289 catches, and the
\* request ends there with what it had written.
StoreFails(r) ==
    /\ InIssueHandler(r)
    /\ req' = [req EXCEPT ![r] = Respond(Idle, "store failure")]
    /\ UNCHANGED <<otp, user, issueTables, tokens, env, clock, hist>>

\* The bodies with no attachments and with a reference the store may reject:
\* the inputs of the runs that do not look at which references are kept.
FewBodies == {b \in Bodies : b.attachments \in {Str("none"), Arr(<<GoodFile, NumberName>>)}}

\* The issue handlers, run by the requests of S with the tokens B on the
\* bodies BB.
IssueStepsOn(S, B, BB) ==
    \/ \E r \in S, b \in B, body \in BB : CreateBegin(r, b, body)
    \/ \E r \in S : CreateUser(r)
    \/ \E r \in S : CreateIssue(r)
    \/ \E r \in S : CreateAttachments(r)
    \/ \E r \in S : CreateAttachmentsRejected(r)
    \/ \E r \in S : CreateEvent(r)
    \/ \E r \in S, b \in B, id \in 1..(MaxIssues + 1), st \in Statuses :
          StatusBegin(r, b, id, st)
    \/ \E r \in S : StatusFind(r)
    \/ \E r \in S : StatusUpdate(r)
    \/ \E r \in S : StatusEvent(r)
    \/ \E r \in S : Return(r)

IssueSteps(S, B) == IssueStepsOn(S, B, Bodies)

\* The state once both phones have gone through start and verify: their User
\* rows exist and their tokens are out.
InitIssues ==
    /\ otp = {}
    /\ user = {[id |-> 1, phone |-> CitizenPhone, role |-> RoleOf(CitizenPhone)],
               [id |-> 2, phone |-> AdminPhone, role |-> RoleOf(AdminPhone)]}
    /\ issue = <<>>
    /\ event = <<>>
    /\ attachment = <<>>
    /\ tokens = Credentials
    /\ env \in TwilioOnly
    /\ clock = 0
    /\ req = [r \in Reqs |-> Idle]
    /\ hist = NoHistory("none")

\* The issue handlers against a store that answers every call.
SpecIssues == InitIssues /\ [][IssueSteps(Reqs, CitizenBearers)]_vars

\* The same against a store whose calls may fail.
SpecIssuesFaulty ==
    InitIssues /\ [][IssueSteps(Reqs, CitizenBearers) \/ \E r \in Reqs : StoreFails(r)]_vars

\* The issue handlers on the few bodies: the runs about status transitions.
SpecTransitions == InitIssues /\ [][IssueStepsOn(Reqs, CitizenBearers, FewBodies)]_vars

(***************************************************************************)
(* GET /issues                                                             *)
(***************************************************************************)

\* A day, in milliseconds.
DayMs == 24 * 60 * 60 * 1000

\* What the process's zone adds to UTC: none, +05:30, -05:00.
Zones == {0, 19800000, -18000000}

\* String.prototype.toLowerCase on one character.
UpperCase == <<"A", "B", "C", "D", "E", "F", "G", "H", "I", "J", "K", "L", "M",
               "N", "O", "P", "Q", "R", "S", "T", "U", "V", "W", "X", "Y", "Z">>
LowerCase == <<"a", "b", "c", "d", "e", "f", "g", "h", "i", "j", "k", "l", "m",
               "n", "o", "p", "q", "r", "s", "t", "u", "v", "w", "x", "y", "z">>
Lower(c) ==
    IF \E k \in 1..26 : UpperCase[k] = c
    THEN LowerCase[CHOOSE k \in 1..26 : UpperCase[k] = c]
    ELSE c

\* { contains: text, mode: "insensitive" }
ContainsInsensitive(s, text) ==
    LET low(x) == [k \in 1..Len(x) |-> Lower(x[k])]
    IN  \E k \in 0..(Len(s) - Len(text)) :
            SubSeq(low(s), k + 1, k + Len(text)) = low(text)

\* String(status).split(","): the status parameter is a sequence whose
\* elements are the separators "," and " " and the labels between them.
RECURSIVE SplitComma(_)
SplitComma(s) ==
    IF \A k \in 1..Len(s) : s[k] # "," THEN <<s>>
    ELSE LET k == CHOOSE j \in 1..Len(s) : s[j] = "," /\ \A i \in 1..(j - 1) : s[i] # ","
         IN  <<SubSeq(s, 1, k - 1)>> \o SplitComma(SubSeq(s, k + 1, Len(s)))

\* .map(s => s.trim()).filter(Boolean)
RECURSIVE TrimmedNonEmpty(_)
TrimmedNonEmpty(parts) ==
    IF parts = <<>> THEN <<>>
    ELSE IF Trim(Head(parts)) = <<>> THEN TrimmedNonEmpty(Tail(parts))
    ELSE <<Trim(Head(parts))>> \o TrimmedNonEmpty(Tail(parts))

\* new Date(String(from)) of a date-only string "YYYY-MM-DD": midnight UTC of
\* that day.  A date parameter is the number of its day.
ParseDate(d) == d.day * DayMs

\* dt.setHours(23, 59, 59, 999): the last millisecond of the day that dt
\* falls on in the process's zone.
EndOfLocalDay(t) ==
    LET local == t + env.tz
    IN  (local - (local % DayMs)) + (DayMs - 1) - env.tz

\* Lines 233-251: the where object.  A clause that is not set is Null.
WhereOf(q) ==
    LET arr == IF q.status # <<>> THEN TrimmedNonEmpty(SplitComma(q.status)) ELSE <<>>
    IN  [statusIn |-> IF arr # <<>> THEN Arr(arr) ELSE Null,
         category |-> IF q.category # <<>> /\ q.category # <<"A", "l", "l">>
                      THEN Str(q.category) ELSE Null,
         gte |-> IF q.from # Null THEN Num(ParseDate(q.from)) ELSE Null,
         lte |-> IF q.to # Null THEN Num(EndOfLocalDay(ParseDate(q.to))) ELSE Null,
         text |-> IF q.q # <<>> THEN Str(Trim(q.q)) ELSE Null]

\* The row satisfies the where object.
WhereHolds(w, row) ==
    /\ w.statusIn # Null
       => \E k \in 1..Len(w.statusIn.arr) : w.statusIn.arr[k] = <<row.status>>
    /\ w.category # Null => row.category = w.category.str
    /\ w.gte # Null => row.createdAt >= w.gte.num
    /\ w.lte # Null => row.createdAt <= w.lte.num
    /\ w.text # Null
       => \/ ContainsInsensitive(row.description, w.text.str)
          \/ ContainsInsensitive(row.category, w.text.str)

\* A sequence back to front.
Reverse(s) == [k \in 1..Len(s) |-> s[Len(s) + 1 - k]]

\* prisma.issue.findMany({ where, orderBy: { id: "desc" } })
FindMany(table, w) == Reverse(SelectSeq(table, LAMBDA row : WhereHolds(w, row)))

\* req.query of GET /issues.
Light == <<"L", "i", "g", "h", "t">>
Queries ==
    {[status |-> st, category |-> c, from |-> f, to |-> t, q |-> text] :
        st \in {<<>>, <<",">>, <<"Resolved">>, <<"Created", ",", " ", "Resolved", " ">>},
        c \in {<<>>, <<"A", "l", "l">>, Pothole, <<"p", "o", "t", "h", "o", "l", "e">>},
        f \in {Null, [day |-> 1], [day |-> 2]},
        t \in {Null, [day |-> 1], [day |-> 2]},
        text \in {<<>>, <<" ">>, <<" ", "H", "O", "L", "E">>, <<"d", "a", "r", "k">>}}

\* Lines 230-253: auth, the where object is built, findMany is sent.
ListBegin(r, bearer, query) ==
    /\ req[r].pc = "idle"
    /\ bearer = NoRow \/ bearer \in tokens
    /\ req' = [req EXCEPT ![r] =
                 IF bearer = NoRow THEN Respond(Idle, "unauthorized")
                 ELSE [Idle EXCEPT !.pc = "l_find", !.query = query]]
    /\ UNCHANGED <<otp, user, issueTables, tokens, env, clock, hist>>

\* Lines 253-274: findMany answers; the items are mapped and sent.  rows holds
\* the ids of the items, in the order of the answer.
ListFind(r) ==
    /\ req[r].pc = "l_find"
    /\ LET items == FindMany(issue, WhereOf(req[r].query))
       IN  req' = [req EXCEPT ![r] =
                     [Respond(@, "items") EXCEPT
                         !.rows = [k \in 1..Len(items) |-> items[k].id]]]
    /\ UNCHANGED <<otp, user, issueTables, tokens, env, clock, hist>>

ListSteps(S, B) ==
    \/ \E r \in S, b \in B, query \in Queries : ListBegin(r, b, query)
    \/ \E r \in S : ListFind(r)
    \/ \E r \in S : Return(r)

\* The Issue tables the list is taken of: up to three issues, created on the
\* first day at 02:00 and at 20:00 UTC and on the second day at noon.
StoredIssues ==
    {<<>>} \cup
    {<<[id |-> 1, category |-> Pothole, description |-> <<"d", "e", "e", "p">>,
        status |-> s1, createdAt |-> DayMs + 2 * 3600000, createdById |-> 1]>> :
        s1 \in {"Created", "Resolved"}} \cup
    {<<[id |-> 1, category |-> Pothole, description |-> <<"d", "e", "e", "p">>,
        status |-> s1, createdAt |-> DayMs + 2 * 3600000, createdById |-> 1],
       [id |-> 2, category |-> Light, description |-> <<"D", "a", "r", "k">>,
        status |-> s2, createdAt |-> DayMs + 20 * 3600000, createdById |-> 1],
       [id |-> 3, category |-> Light, description |-> <<"p", "o", "t", "H", "o", "l", "e", "s">>,
        status |-> "Assigned", createdAt |-> 2 * DayMs + 12 * 3600000, createdById |-> 2]>> :
        s1 \in {"Created", "Resolved"}, s2 \in {"Created", "Resolved"}}

\* Some issues are stored, the tokens are out, the process runs in some zone.
InitList ==
    /\ otp = {}
    /\ user = {[id |-> 1, phone |-> CitizenPhone, role |-> RoleOf(CitizenPhone)],
               [id |-> 2, phone |-> AdminPhone, role |-> RoleOf(AdminPhone)]}
    /\ issue \in StoredIssues
    /\ event = <<>>
    /\ attachment = <<>>
    /\ tokens = Credentials
    /\ env \in {[devOtp |-> TRUE, twilio |-> FALSE, tz |-> z] : z \in Zones}
    /\ clock = 0
    /\ req = [r \in Reqs |-> Idle]
    /\ hist = NoHistory("none")

\* One list request at a time: the handler writes nothing.
SpecList == InitList /\ [][ListSteps({"r1"}, CitizenBearers)]_vars

Next ==
    \/ OtpNext(Reqs, RawPhonesOf(CitizenPhone) \cup RawPhonesOf(AdminPhone))
    \/ IssueSteps(Reqs, Bearers)
    \/ ListSteps(Reqs, Bearers)
    \/ \E r \in Reqs : StoreFails(r)

Spec == Init /\ [][Next]_vars

(***************************************************************************)
(* Properties                                                              *)
(***************************************************************************)

\* The Otp row stored for phone p, or NoRow.
OtpRow(p) == FindUnique(otp, p)

\* Request r takes the step that leaves position `from`.
Leaves(r, from) == req[r].pc = from /\ req'[r].pc # from

\* No start for phone p is between its lookup and its answer.
NoStartInFlight(p) ==
    \A q \in Reqs : ~(req[q].pc \in {"s_find", "s_upsert", "s_send"} /\ req[q].phone = p)

\* The OTP tables are left as they are.
OtpUntouched == otp' = otp /\ user' = user /\ tokens' = tokens

\* C1 (as claimed): the attempts counter of a stored record never exceeds 5.
\* Refuted under SpecOtp: two verifies with a wrong code both read attempts = 4
\* and both increment.
C1_AttemptsNeverExceedCeiling ==
    \A x \in otp : x.attempts <= 5

\* C1, second half: a verify that reads a record whose 5th failure is recorded
\* never gets past the checks.  It holds under SpecOtp.
C1_NoSuccessOnceCeilingRecorded ==
    [][\A r \in Reqs :
         (Leaves(r, "v_find") /\ OtpRow(req[r].phone) # NoRow
            /\ OtpRow(req[r].phone).attempts >= 5)
         => req'[r].pc = "done" /\ req'[r].res # "token"]_vars

\* C4 (as claimed): once a verify has answered with a token, and until a
\* start for that phone answers ok, every verify that looks the record up is
\* answered "start OTP first".  Refuted under SpecReplay: a start whose SMS
\* fails has already written its record.
C4_ReplayFailsUntilStartSucceeds ==
    [][\A r \in Reqs :
         (Leaves(r, "v_find") /\ req[r].phone \in hist.verifiedNoOk
            /\ NoStartInFlight(req[r].phone))
         => req'[r].res = "start OTP first"]_vars

\* C4 (amended): once a verify has deleted the record, and until a start for
\* that phone writes a record, every verify that looks the record up is
\* answered "start OTP first" and touches nothing.
C4_ReplayFailsUntilRecordWritten ==
    [][\A r \in Reqs :
         (Leaves(r, "v_find") /\ req[r].phone \in hist.verifiedNoNew)
         => /\ req'[r].pc = "done"
            /\ req'[r].res = "start OTP first"
            /\ OtpUntouched]_vars

\* C4 witness: a replay has been refused.
C4_Witness ==
    \E r \in Reqs :
        /\ req[r].pc = "done"
        /\ req[r].res = "start OTP first"
        /\ req[r].phone \in hist.verifiedNoNew
        /\ req[r].phone \in hist.verifiedNoOk

\* C5 (as claimed): a verify that reads a record with attempts = 5 is answered
\* "Too many attempts" whatever the time.  Refuted under SpecOtp: past
\* expiresAt the answer is "OTP expired".
C5_CeilingWinsAtAnyTime ==
    [][\A r \in Reqs :
         (Leaves(r, "v_find") /\ OtpRow(req[r].phone) # NoRow
            /\ OtpRow(req[r].phone).attempts = 5)
         => req'[r].res = "Too many attempts"]_vars

\* C5 (amended): a verify that reads an unexpired record with attempts = 5 is
\* answered "Too many attempts", whatever code it carries.
C5_CeilingWinsUnlessExpired ==
    [][\A r \in Reqs :
         (Leaves(r, "v_find") /\ OtpRow(req[r].phone) # NoRow
            /\ OtpRow(req[r].phone).attempts = 5
            /\ clock <= OtpRow(req[r].phone).expiresAt)
         => /\ req'[r].pc = "done"
            /\ req'[r].res = "Too many attempts"]_vars

\* C5 witness: a verify has been refused on a record with 5 attempts while
\* another one, carrying the stored code, is about to read the same record.
C5_Witness ==
    \E r, q \in Reqs :
        /\ req[r].pc = "done" /\ req[r].res = "Too many attempts"
        /\ OtpRow(req[r].phone) # NoRow
        /\ OtpRow(req[r].phone).attempts = 5
        /\ clock <= OtpRow(req[r].phone).expiresAt
        /\ req[q].pc = "v_find" /\ req[q].phone = req[r].phone
        /\ req[q].code = OtpRow(req[r].phone).code

\* C6 (as claimed): a start made less than 45 s after one that answered ok is
\* answered "Please wait" with the remaining seconds rounded up, and the
\* record stays.  Refuted under SpecCooldown: a verify in between deletes the
\* record, and the second start goes through.
C6_SecondStartRateLimited ==
    [][\A r \in Reqs :
         LET p == req[r].phone
             since == req[r].now - hist.okAt[p]
         IN  (Leaves(r, "s_find") /\ hist.okAt[p] >= 0
                /\ since >= 0 /\ since < 45000)
             => /\ req'[r].res = "Please wait"
                /\ req'[r].wait > 0 /\ req'[r].wait <= 45
                /\ otp' = otp]_vars

\* C6 (amended): a start made less than 45 s after the creation of the record
\* it finds stored is answered "Please wait"; the wait w is the remaining time
\* rounded up to a whole second, 0 < w <= 45; the record stays.
C6_StartRateLimitedWhileRecordStored ==
    [][\A r \in Reqs :
         LET p == req[r].phone
             since == req[r].now - OtpRow(p).createdAt
             w == req'[r].wait
         IN  (Leaves(r, "s_find") /\ OtpRow(p) # NoRow
                /\ since >= 0 /\ since < 45000)
             => /\ req'[r].pc = "done"
                /\ req'[r].res = "Please wait"
                /\ (w - 1) * 1000 < 45000 - since /\ 45000 - since <= w * 1000
                /\ w > 0 /\ w <= 45
                /\ otp' = otp]_vars

\* C6 witness: a second start, half a second before the cooldown of a
\* successful one ends, has been told to wait 1 s.
C6_Witness ==
    \E r \in Reqs :
        /\ req[r].pc = "done" /\ req[r].res = "Please wait" /\ req[r].wait = 1
        /\ hist.okAt[req[r].phone] = 0
        /\ OtpRow(req[r].phone) # NoRow
        /\ OtpRow(req[r].phone).createdAt = 0

\* C7: a verify that reads a record past its expiresAt is answered
\* "OTP expired", whatever the attempts and the code, and touches nothing.
C7_ExpiredNeverAccepted ==
    [][\A r \in Reqs :
         (Leaves(r, "v_find") /\ OtpRow(req[r].phone) # NoRow
            /\ clock > OtpRow(req[r].phone).expiresAt)
         => /\ req'[r].pc = "done"
            /\ req'[r].res = "OTP expired"
            /\ OtpUntouched]_vars

\* C7 witness: a verify has been refused as expired, the record is still there.
C7_Witness ==
    \E r \in Reqs :
        /\ req[r].pc = "done" /\ req[r].res = "OTP expired"
        /\ OtpRow(req[r].phone) # NoRow
        /\ clock > OtpRow(req[r].phone).expiresAt

\* C8: at most one Otp row per phone, and every row has
\* expiresAt = createdAt + 5 min and attempts >= 0.
C8_OneWellFormedRecordPerIdentity ==
    /\ \A x, y \in otp : x.phone = y.phone => x = y
    /\ \A x \in otp : x.expiresAt = x.createdAt + 300000 /\ x.attempts >= 0

\* C8 witness: two concurrent starts for one phone have both written, and one
\* row is stored.
C8_Witness ==
    \E r, q \in Reqs :
        /\ r # q
        /\ req[r].pc = "s_send" /\ req[q].pc = "s_send"
        /\ req[r].phone = req[q].phone
        /\ Cardinality(otp) = 1
        /\ \E x \in otp : x.phone = req[r].phone

\* C9 (as claimed): a verify that found a live record and a different code
\* ends with "Invalid OTP" and the record's attempts one higher, nothing else
\* changed.  Refuted under SpecOtp: a concurrent verify with the right code
\* deletes the record first, the update throws and 500 "failed" is answered.
C9_MismatchCountsOneAttempt ==
    [][\A r \in Reqs :
         Leaves(r, "v_update")
         => /\ req'[r].res = "Invalid OTP"
            /\ OtpRow(req[r].phone) # NoRow
            /\ otp' = (otp \ {OtpRow(req[r].phone)})
                        \cup {[OtpRow(req[r].phone) EXCEPT !.attempts = @ + 1]}
            /\ user' = user /\ tokens' = tokens]_vars

\* The stored record can no longer be verified: 5 attempts, or expired.
Unusable(row) == row.attempts >= 5 \/ clock > row.expiresAt

\* What C10 says of a start and of the verify that follows it.
C10_Recovery(r) ==
    LET p == req[r].phone
    IN  /\ (Leaves(r, "s_find") /\ OtpRow(p) # NoRow
              /\ req[r].now - OtpRow(p).createdAt >= 45000)
           => req'[r].pc = "s_upsert" /\ req'[r].code \in GenCodes
        /\ Leaves(r, "s_upsert")
           => FindUnique(otp', p) =
                 [phone |-> p, code |-> req[r].code, createdAt |-> req[r].now,
                  expiresAt |-> req[r].now + 300000, attempts |-> 0]
        /\ (Leaves(r, "v_find") /\ OtpRow(p) # NoRow /\ ~Unusable(OtpRow(p))
              /\ OtpRow(p).code = req[r].code)
           => req'[r].pc = "v_delete"
        /\ (Leaves(r, "v_delete") /\ OtpRow(p) # NoRow)
           => FindUnique(otp', p) = NoRow /\ req'[r].pc = "v_user"
        /\ Leaves(r, "v_user")
           => req'[r].res = "token" /\ [phone |-> p, role |-> RoleOf(p)] \in tokens'

\* C10 (as claimed): once the record is unusable, no verify gets past the
\* checks until a start for that phone answers ok; a start at least 45 s
\* after the record's creation replaces it with a fresh one, which a verify
\* with the new code consumes.  Refuted under SpecReplay: a start whose SMS
\* fails has replaced the record, and a verify with the new code succeeds.
C10_UnusableUntilStartSucceeds ==
    [][\A r \in Reqs :
         /\ (Leaves(r, "v_find") /\ req[r].phone \in hist.spentNoOk
               /\ NoStartInFlight(req[r].phone))
            => req'[r].pc # "v_delete"
         /\ C10_Recovery(r)]_vars

\* C10 (amended): the same, until a start for that phone writes its record;
\* that start answers ok, or "Failed to send OTP" when Twilio throws.
C10_UnusableUntilRecordWritten ==
    [][\A r \in Reqs :
         /\ (Leaves(r, "v_find") /\ req[r].phone \in hist.spentNoNew)
            => req'[r].pc = "done"
               /\ req'[r].res \in {"OTP expired", "Too many attempts", "start OTP first"}
               /\ OtpUntouched
         /\ Leaves(r, "s_send")
            => req'[r].res \in {"ok", "Failed to send OTP"} /\ OtpUntouched
         /\ C10_Recovery(r)]_vars

\* C10 witness: the record had become unusable, a start has replaced it, and
\* a verify with the new code has consumed the replacement.
C10_Witness ==
    \E r \in Reqs :
        /\ req[r].pc = "v_user"
        /\ req[r].phone \in hist.spentNoOk
        /\ req[r].phone \notin hist.spentNoNew
        /\ clock >= 45000

\* The events of issue i, oldest first.
EventsOf(i) == SelectSeq(event, LAMBDA e : e.issueId = i)

\* A status request for issue i is between its lookup and its answer.
TransitionInProgress(i) ==
    \E r \in Reqs : req[r].pc \in {"t_find", "t_update", "t_event"} /\ req[r].id = i

\* C2 (as claimed): whenever no status request is in progress on an issue
\* whose creation was logged first, the issue's status is the status of its
\* latest event.  Refuted under SpecIssues: of two concurrent status requests
\* one may write the status last and the other the event last.
C2_StatusIsLatestEventStatus ==
    \A i \in DOMAIN issue :
        LET ev == EventsOf(i)
        IN  (~TransitionInProgress(i) /\ ev # <<>> /\ ev[1].status = "Created")
            => issue[i].status = ev[Len(ev)].status

\* C3 (as claimed): a status request that fails leaves no overwritten status
\* behind: whenever no status request is in progress, a status other than
\* "Created" has an event of the issue that carries it.  Refuted under
\* SpecIssuesFaulty: the event insert fails after the update has been applied.
C3_NoStatusWithoutItsEvent ==
    \A i \in DOMAIN issue :
        (~TransitionInProgress(i) /\ issue[i].status # "Created")
        => \E k \in DOMAIN event :
              event[k].issueId = i /\ event[k].status = issue[i].status

\* A start for phone p has just been answered "Failed to send OTP".
DeliveryFailed(p) ==
    \E q \in Reqs :
        req[q].pc = "done" /\ req[q].res = "Failed to send OTP" /\ req[q].phone = p

\* C11: a start answers "Failed to send OTP" only when Twilio is the gateway,
\* and that answer leaves the record it wrote stored; while the failed start
\* has its answer out, a start less than 45 s after the record's creation is
\* answered "Please wait", and a verify carrying the stored code of the live
\* record passes the checks and deletes it.
C11_DeliveryFailureKeepsRecord ==
    [][\A r \in Reqs :
         LET p == req[r].phone
         IN  /\ (Leaves(r, "s_send") /\ req'[r].res = "Failed to send OTP")
                => env.twilio /\ ~env.devOtp /\ OtpUntouched
             /\ (Leaves(r, "s_find") /\ DeliveryFailed(p) /\ OtpRow(p) # NoRow
                   /\ req[r].now >= OtpRow(p).createdAt
                   /\ req[r].now - OtpRow(p).createdAt < 45000)
                => req'[r].res = "Please wait" /\ otp' = otp
             /\ (Leaves(r, "v_find") /\ DeliveryFailed(p) /\ OtpRow(p) # NoRow
                   /\ clock <= OtpRow(p).expiresAt /\ OtpRow(p).attempts < 5
                   /\ OtpRow(p).code = req[r].code)
                => req'[r].pc = "v_delete"
             /\ (Leaves(r, "v_delete") /\ DeliveryFailed(p) /\ OtpRow(p) # NoRow)
                => FindUnique(otp', p) = NoRow /\ req'[r].pc = "v_user"]_vars

\* C11 witness: a start has failed to deliver, its record is stored, and a
\* second start inside the cooldown has been told to wait.
C11_Witness ==
    \E r, q \in Reqs :
        /\ req[q].pc = "done" /\ req[q].res = "Failed to send OTP"
        /\ req[r].pc = "done" /\ req[r].res = "Please wait"
        /\ req[r].phone = req[q].phone
        /\ OtpRow(req[q].phone) # NoRow

\* A create request for issue i is between its issue insert and its answer.
CreationInProgress(i) ==
    \E r \in Reqs : req[r].pc \in {"c_attach", "c_event"} /\ req[r].id = i

\* C12 (as claimed): every stored issue whose creation is not in progress has
\* at least one event, and its first event has status "Created" and the
\* phone of the issue's creator.  Refuted under SpecIssuesFaulty: the issue
\* insert is applied, then the attachment or event insert fails.
C12_EveryIssueHasItsCreatedEvent ==
    \A i \in DOMAIN issue :
        ~CreationInProgress(i)
        => /\ EventsOf(i) # <<>>
           /\ EventsOf(i)[1].status = "Created"
           /\ \E u \in user : u.id = issue[i].createdById
                                /\ u.phone = EventsOf(i)[1].byPhone

\* The events of issue i in the log, oldest first.
EventsIn(log, i) == SelectSeq(log, LAMBDA e : e.issueId = i)

\* Sequence s is the beginning of sequence t.
IsPrefix(s, t) == Len(s) <= Len(t) /\ SubSeq(t, 1, Len(s)) = s

\* C13: in every step, for every issue, the events it had are the beginning
\* of the events it has afterwards; a status request that answers ok adds to
\* its issue exactly one event, carrying the status and the phone of the
\* request, and adds none to the other issues; its earlier steps add none.
C13_EventLogAppendOnly ==
    [][/\ \A i \in 1..(MaxIssues + 1) : IsPrefix(EventsIn(event, i), EventsIn(event', i))
       /\ \A r \in Reqs :
            /\ (Leaves(r, "t_event") /\ req'[r].res = "ok")
               => /\ EventsIn(event', req[r].id) =
                        Append(EventsIn(event, req[r].id),
                               [issueId |-> req[r].id, status |-> req[r].status,
                                byPhone |-> req[r].actor.phone])
                  /\ \A j \in 1..(MaxIssues + 1) :
                        j # req[r].id => EventsIn(event', j) = EventsIn(event, j)
            /\ (Leaves(r, "t_find") \/ Leaves(r, "t_update")) => event' = event]_vars

\* C13 witness: a status request has answered ok and its event is the last
\* of at least two events of an issue.
C13_Witness ==
    \E r \in Reqs, i \in DOMAIN issue :
        /\ req[r].pc = "done" /\ req[r].res = "ok"
        /\ Len(EventsIn(event, i)) >= 2
        /\ EventsIn(event, i)[Len(EventsIn(event, i))].status = req[r].status

\* C14: a status request whose lookup finds no issue with its id is answered
\* "issue not found" and ends there; no table is changed.
C14_UnknownIssueNotFound ==
    [][\A r \in Reqs :
         (Leaves(r, "t_find") /\ req[r].id \notin DOMAIN issue)
         => /\ req'[r].pc = "done"
            /\ req'[r].res = "issue not found"
            /\ UNCHANGED <<issue, event, attachment, user>>]_vars

\* C14 witness: a status request for an unknown id has been refused while an
\* issue is stored.
C14_Witness ==
    \E r \in Reqs :
        /\ req[r].pc = "done" /\ req[r].res = "issue not found"
        /\ issue # <<>>

(***************************************************************************)
(* Users: the two handlers that write the User table, on both phones.      *)
(***************************************************************************)

\* Console mode: every send is answered ok.
ConsoleOnly == {e \in Environments : e.devOtp}

\* The one code the starts draw and the verifies carry here: no verify meets
\* a mismatch, the increment of line 162 is never sent.
UserCodes == {ToStr(CodeBase)}

UsersNext ==
    \/ \E r \in Reqs, p \in Phones : StartBegin(r, p)
    \/ \E r \in Reqs, c \in UserCodes : StartFind(r, c)
    \/ \E r \in Reqs : StartUpsert(r)
    \/ \E r \in Reqs : StartSend(r, TRUE)
    \/ \E r \in Reqs, p \in Phones, c \in UserCodes : VerifyBegin(r, p, c)
    \/ \E r \in Reqs : VerifyFind(r)
    \/ \E r \in Reqs : VerifyDelete(r)
    \/ \E r \in Reqs : VerifyUser(r)
    \/ \E r \in Reqs, b \in Bearers, body \in FewBodies : CreateBegin(r, b, body)
    \/ \E r \in Reqs : CreateUser(r)
    \/ \E r \in Reqs : CreateIssue(r)
    \/ \E r \in Reqs : CreateAttachments(r)
    \/ \E r \in Reqs : CreateAttachmentsRejected(r)
    \/ \E r \in Reqs : CreateEvent(r)
    \/ \E r \in Reqs : Return(r)

SpecUsers == InitWith(ConsoleOnly, "none") /\ [][UsersNext]_vars

\* C15: in every step of the verify and create handlers the User table keeps
\* one row per phone, each row's role is "admin" exactly for the phone
\* "8888888888" and "citizen" otherwise, no row disappears, and the user
\* upsert of the create handler leaves every existing row as it is.
C15_OneUserPerIdentityWithDerivedRole ==
    [][/\ \A u, v \in user' : u.phone = v.phone => u = v
       /\ \A u \in user' :
            /\ u.role \in {"admin", "citizen"}
            /\ u.role = "admin" <=> u.phone = <<"8", "8", "8", "8", "8", "8", "8", "8", "8", "8">>
       /\ \A u \in user : \E v \in user' : v.phone = u.phone /\ v.id = u.id
       /\ \A r \in Reqs : Leaves(r, "c_user") => user \subseteq user']_vars

\* C15 witness: both phones have verified, the admin has its role, and an
\* issue has been created by a user whose row already existed.
C15_Witness ==
    /\ Cardinality(user) = 2
    /\ \E u \in user : u.role = "admin"
    /\ \E u \in user : u.role = "citizen"
    /\ \E i \in DOMAIN issue : \E u \in user : u.id = issue[i].createdById

\* The references of a list that carry a non-empty filename, a mime and a
\* numeric size, in their order.
C16_Kept(list) ==
    SelectSeq(list, LAMBDA a : /\ "filename" \in DOMAIN a
                               /\ "str" \in DOMAIN a.filename /\ a.filename.str # ""
                               /\ "str" \in DOMAIN a.mime /\ a.mime.str # ""
                               /\ "num" \in DOMAIN a.size)

\* The Attachment rows the attachments v of a request are to leave for issue id.
C16_Expected(v, id) ==
    IF "arr" \in DOMAIN v
    THEN [k \in 1..Len(C16_Kept(v.arr)) |->
            [issueId |-> id, filename |-> C16_Kept(v.arr)[k].filename,
             mime |-> C16_Kept(v.arr)[k].mime, size |-> C16_Kept(v.arr)[k].size.num]]
    ELSE <<>>

\* C16 (as claimed): when the issue insert of a create request is applied,
\* the rows the request goes on to insert are exactly its references with a
\* non-empty filename, a mime and a numeric size, in order, linked to the
\* new issue; the attachment insert adds exactly those rows and nothing else
\* changes the Attachment table; whatever the references, the request goes
\* on to insert the "Created" event and answers with the id.  Refuted under
\* SpecIssues: a reference whose filename is a number passes the filter.
C16_AttachmentsAreTheWellFormedReferences ==
    [][/\ \A r \in Reqs :
            /\ Leaves(r, "c_issue")
               => LET id == Len(issue) + 1
                      exp == C16_Expected(req[r].rows, id)
                  IN  /\ Len(issue') = id
                      /\ issue'[id].status = "Created"
                      /\ req'[r].id = id
                      /\ req'[r].rows = exp
                      /\ req'[r].pc = IF exp = <<>> THEN "c_event" ELSE "c_attach"
            /\ Leaves(r, "c_attach")
               => attachment' = attachment \o req[r].rows /\ req'[r].pc = "c_event"
            /\ Leaves(r, "c_event")
               => /\ req'[r].res = "created"
                  /\ event' = Append(event, [issueId |-> req[r].id, status |-> "Created",
                                             byPhone |-> req[r].actor.phone])
       /\ attachment' # attachment => \E r \in Reqs : Leaves(r, "c_attach")]_vars

\* C16, once the filter has passed its rows: a create request whose rows all
\* have the types of the columns inserts exactly them and goes on to the
\* event.  It holds under SpecIssues.
C16_TypedRowsArePersisted ==
    [][\A r \in Reqs :
         (Leaves(r, "c_attach") /\ \A k \in DOMAIN req[r].rows : FitsColumns(req[r].rows[k]))
         => attachment' = attachment \o req[r].rows /\ req'[r].pc = "c_event"]_vars


(***************************************************************************)
(* Listing                                                                 *)
(***************************************************************************)

\* A list request has been answered with items.
Listed(r) == req[r].pc = "done" /\ req[r].res = "items"

\* What the filters of a query select, the dates being days of the zone that
\* is z ahead of UTC: the labels named in the status set (none named: all),
\* the category unless it is absent or "All", the days from..to in full, the
\* text in the description or the category whatever the case.
Selected(q, z) ==
    LET labels == {s \in {"Created", "Assigned", "Resolved"} :
                      \E k \in 1..Len(q.status) : q.status[k] = s}
    IN  {row.id : row \in
            {issue[k] : k \in {j \in 1..Len(issue) :
                /\ labels # {} => issue[j].status \in labels
                /\ q.category \notin {<<>>, <<"A", "l", "l">>}
                   => issue[j].category = q.category
                /\ q.from # Null => issue[j].createdAt >= q.from.day * 86400000 - z
                /\ q.to # Null => issue[j].createdAt <= (q.to.day + 1) * 86400000 - 1 - z
                /\ q.q # <<>>
                   => \/ ContainsInsensitive(issue[j].description, Trim(q.q))
                      \/ ContainsInsensitive(issue[j].category, Trim(q.q))}}}

\* The answer lists exactly the ids of S, the greatest first.
ListsExactly(r, S) ==
    /\ {req[r].rows[k] : k \in 1..Len(req[r].rows)} = S
    /\ \A j, k \in 1..Len(req[r].rows) : j < k => req[r].rows[j] > req[r].rows[k]

\* C17: ListIssues returns exactly the issues that satisfy all the supplied
\* filters (status set, category with the wildcard "All", the creation-date
\* range from..to with "to" taken to the end of its day, free text), ordered
\* by descending identifier, and empty when nothing matches.  The days of the
\* range are days of one zone: UTC or the zone of the process.
C17_ListReturnsExactlyTheMatches ==
    \A r \in Reqs :
        Listed(r) =>
            \/ ListsExactly(r, Selected(req[r].query, 0))
            \/ ListsExactly(r, Selected(req[r].query, env.tz))

\* C17, where it holds: in a process whose zone is UTC the answer is exactly
\* the selected issues, the greatest id first.
C17_ListReturnsExactlyTheMatchesInUTC ==
    \A r \in Reqs :
        Listed(r) /\ env.tz = 0 => ListsExactly(r, Selected(req[r].query, 0))

\* C17: apart from the dates, the answer is right in every zone.
C17_ListReturnsExactlyTheMatchesWithoutTo ==
    \A r \in Reqs :
        Listed(r) /\ req[r].query.to = Null /\ req[r].query.from = Null
            => ListsExactly(r, Selected(req[r].query, 0))

\* C17: the list handler writes nothing.
C17_ListModifiesNothing ==
    [][(\E r \in Reqs : req[r].pc = "l_find" \/ req'[r].pc = "l_find")
        => UNCHANGED <<otp, user, issueTables, tokens>>]_vars

\* C17: a list with every filter set has been answered with two issues.
C17_Witness ==
    \E r \in Reqs :
        /\ Listed(r)
        /\ Len(req[r].rows) = 2
        /\ req[r].query.status # <<>> /\ req[r].query.q # <<>>
        /\ req[r].query.from # Null /\ req[r].query.to # Null


(***************************************************************************)
(* Concurrent verifies and starts                                          *)
(***************************************************************************)

\* Request r takes the step in which its delete removes a stored record.
Consumes(r) == Leaves(r, "v_delete") /\ req'[r].pc = "v_user"

\* C18: a VerifyCode that read an earlier record never deletes a record
\* written by a later RequestCode: the record a verify deletes has the code
\* and the creation time of the record it read.
C18_VerifyDeletesTheRecordItRead ==
    [][\A r \in Reqs :
          Consumes(r) =>
              /\ OtpRow(req[r].phone).code = req[r].read.code
              /\ OtpRow(req[r].phone).createdAt = req[r].read.createdAt]_vars

\* C18, where it holds: while no start writes between the lookup and the
\* delete, two verifies that read the same record are not both answered
\* with a token (the second delete finds no row and the request fails).
C18_SecondDeleteFails ==
    [][\A r \in Reqs :
          Leaves(r, "v_delete") /\ ~Has(otp, req[r].phone)
            => req'[r].res = "failed" /\ OtpUntouched]_vars


\* Request r takes the step in which its upsert takes effect and its code
\* goes to the gateway.
Dispatches(r) == Leaves(r, "s_upsert")

\* C19: of concurrent RequestCode calls for one identity with no successful
\* verification in between, at most one generates and dispatches a code
\* within any 45-second window: no code is dispatched while the stored record
\* (written with the dispatch before, and not consumed by a verify since) is
\* less than 45 seconds old.
C19_OneDispatchPerWindow ==
    [][\A r \in Reqs :
          Dispatches(r) /\ Has(otp, req[r].phone)
            => clock - OtpRow(req[r].phone).createdAt >= 45000]_vars

\* C19, where it holds: a start whose lookup is answered with a record less
\* than 45 seconds old dispatches nothing.
C19_LookupOfYoungRecordRefuses ==
    [][\A r \in Reqs :
          /\ Leaves(r, "s_find")
          /\ Has(otp, req[r].phone)
          /\ req[r].now - OtpRow(req[r].phone).createdAt < 45000
          => req'[r].pc = "done" /\ req'[r].res = "Please wait"]_vars


(***************************************************************************)
(* Delivery addresses                                                      *)
(***************************************************************************)

\* sendSms has been called for the phone string p.
SentFor(p) == hist.sent # NoRow /\ hist.sent.phone = p

\* C20: every phone string that already begins with "+" is returned by
\* toE164 unchanged.
C20_PlusPrefixedIsUnchanged ==
    (hist.sent # NoRow /\ Head(hist.sent.phone) = "+")
        => hist.sent.to = hist.sent.phone

\* C20, where it holds: for the strings that do not begin with "+" the
\* address is "+91" and the 10 digits, "+" and the 12 digits that begin with
\* 91, "+91" in place of the 0 of 11 digits, "+" and the digits otherwise.
C20_AddressOfPlainInputs ==
    LET nine == CitizenPhone
    IN  /\ SentFor(nine) => hist.sent.to = <<"+", "9", "1">> \o nine
        /\ SentFor(<<"9", "1">> \o nine) => hist.sent.to = <<"+", "9", "1">> \o nine
        /\ SentFor(<<"0">> \o nine) => hist.sent.to = <<"+", "9", "1">> \o nine
        /\ SentFor(<<"9", "9", "9", "9", "9", "-", "9", "9", "9", "9", "9">>)
              => hist.sent.to = <<"+", "9", "1">> \o nine
        /\ SentFor(<<"1", "2", "3", "4", "5">>)
              => hist.sent.to = <<"+", "1", "2", "3", "4", "5">>

\* C20, where it holds: the Otp, User rows and the tokens are keyed by the
\* input with the blanks at its ends taken off, never by the address.
C20_RowsKeyedByTrimmedInput ==
    LET key == IF Head(hist.input) = " "
               THEN SubSeq(hist.input, 2, Len(hist.input) - 1)
               ELSE hist.input
    IN  /\ \A row \in otp : row.phone = key
        /\ \A row \in user : row.phone = key
        /\ \A t \in tokens : t.phone = key

\* C20: a code has gone out for a phone string that begins with "+", and its
\* record is stored.
C20_Witness ==
    /\ hist.sent # NoRow /\ Head(hist.sent.phone) = "+"
    /\ otp # {} /\ user # {}

====
